---- MODULE Spec2Model ----
(***************************************************************************)
(* The esports ingestion pipeline of data_scraper.py: page fetch,          *)
(* multi-page aggregation, positional renaming, cleaning, deduplication,   *)
(* schema creation and loading into the MySQL store, as run by main().     *)
(*                                                                         *)
(* Text is a sequence of one-character strings, so that the regular        *)
(* expression replacements and the number parsers act on characters.       *)
(* A DataFrame is [cols |-> sequence of column labels,                     *)
(*                 rows |-> sequence of rows, each a sequence of cells].   *)
(* A cell is a tagged value: text, NaN (missing), an integer, or a float   *)
(* held exactly as n / 10^e.                                               *)
(***************************************************************************)
EXTENDS Integers, Sequences, FiniteSets, TLC

\* ------------------------------------------------------------ cell values

Str(s) == [t |-> "str", s |-> s, n |-> 0, e |-> 0]
NaN == [t |-> "nan", s |-> <<>>, n |-> 0, e |-> 0]
IntV(n) == [t |-> "int", s |-> <<>>, n |-> n, e |-> 0]

RECURSIVE Pow10(_)
Pow10(e) == IF e = 0 THEN 1 ELSE 10 * Pow10(e - 1)

\* A float n / 10^e in lowest decimal form, so that equal values are equal
\* records (500.50 = 500.5).
RECURSIVE FloatV(_, _)
FloatV(n, e) ==
    IF e > 0 /\ n % 10 = 0 THEN FloatV(n \div 10, e - 1)
    ELSE [t |-> "float", s |-> <<>>, n |-> n, e |-> e]

\* The outcome of a call: the exception it raised ("none" when it returned)
\* and the value it returned.
Ok(v) == [exc |-> "none", val |-> v]
Raise(x) == [exc |-> x, val |-> NaN]

\* ------------------------------------------------------------ text helpers

Digits == {"0", "1", "2", "3", "4", "5", "6", "7", "8", "9"}

DigitVal(c) ==
    CASE c = "0" -> 0 [] c = "1" -> 1 [] c = "2" -> 2 [] c = "3" -> 3
      [] c = "4" -> 4 [] c = "5" -> 5 [] c = "6" -> 6 [] c = "7" -> 7
      [] c = "8" -> 8 [] c = "9" -> 9

RECURSIVE DigitsToInt(_)
DigitsToInt(s) ==
    IF s = <<>> THEN 0
    ELSE DigitsToInt(SubSeq(s, 1, Len(s) - 1)) * 10 + DigitVal(s[Len(s)])

\* re.sub of a character class by '': every character of the class goes.
RemoveChars(s, class) == SelectSeq(s, LAMBDA c : c \notin class)

\* str.replace(pat, ''): every non-overlapping occurrence of pat, left to right.
RECURSIVE RemoveSub(_, _)
RemoveSub(s, pat) ==
    IF Len(s) < Len(pat) \/ pat = <<>> THEN s
    ELSE IF SubSeq(s, 1, Len(pat)) = pat
         THEN RemoveSub(SubSeq(s, Len(pat) + 1, Len(s)), pat)
         ELSE <<Head(s)>> \o RemoveSub(Tail(s), pat)

\* str.strip() of blanks, as float() and int() do before parsing.
RECURSIVE Strip(_)
Strip(s) ==
    IF s = <<>> THEN s
    ELSE IF Head(s) = " " THEN Strip(Tail(s))
    ELSE IF s[Len(s)] = " " THEN Strip(SubSeq(s, 1, Len(s) - 1))
    ELSE s

CountChar(s, c) == Len(SelectSeq(s, LAMBDA x : x = c))

\* Python's float(text) on the decimal forms: blanks stripped, an optional
\* sign, digits with at most one point and at least one digit, or "nan".
\* Anything else raises ValueError.
ParseFloat(s) ==
    LET u == Strip(s)
        neg == u # <<>> /\ Head(u) = "-"
        b == IF u # <<>> /\ Head(u) \in {"-", "+"} THEN Tail(u) ELSE u
        ds == RemoveChars(b, {"."})
        pt == CHOOSE i \in 1..(Len(b) + 1) : i = Len(b) + 1 \/ b[i] = "."
        frac == IF pt > Len(b) THEN 0 ELSE Len(b) - pt
        mag == DigitsToInt(ds)
    IN  IF b = <<"n", "a", "n">> THEN Ok(NaN)
        ELSE IF /\ ds # <<>>
                /\ \A i \in 1..Len(ds) : ds[i] \in Digits
                /\ CountChar(b, ".") <= 1
             THEN Ok(FloatV(IF neg THEN 0 - mag ELSE mag, frac))
             ELSE Raise("ValueError")

\* Python's int(text): blanks stripped, an optional sign, digits only.
ParseInt(s) ==
    LET u == Strip(s)
        neg == u # <<>> /\ Head(u) = "-"
        b == IF u # <<>> /\ Head(u) \in {"-", "+"} THEN Tail(u) ELSE u
    IN  IF b # <<>> /\ \A i \in 1..Len(b) : b[i] \in Digits
        THEN Ok(IntV(IF neg THEN 0 - DigitsToInt(b) ELSE DigitsToInt(b)))
        ELSE Raise("ValueError")

\* float -> int conversion truncates toward zero.
Trunc(n, e) ==
    IF n >= 0 THEN n \div Pow10(e) ELSE 0 - ((0 - n) \div Pow10(e))

\* ------------------------------------------------------------ element-wise conversions

\* Series.astype(str) of one cell: text stays, a missing value becomes "nan".
AsStr(c) ==
    CASE c.t = "str" -> Ok(c)
      [] c.t = "nan" -> Ok(Str(<<"n", "a", "n">>))
      [] OTHER -> Ok(c)

\* Series.astype(float) of one cell.
AsFloat(c) ==
    CASE c.t = "str" -> ParseFloat(c.s)
      [] c.t = "int" -> Ok(FloatV(c.n, 0))
      [] OTHER -> Ok(c)

\* Series.astype(int) of one cell: NaN cannot be cast.
AsInt(c) ==
    CASE c.t = "str" -> ParseInt(c.s)
      [] c.t = "float" -> Ok(IntV(Trunc(c.n, c.e)))
      [] c.t = "nan" -> Raise("ValueError")
      [] OTHER -> Ok(c)

\* A currency replacement whose pattern is the symbol alone.
ReplaceCurrencySymbolOnly(c) ==
    IF c.t = "str" THEN Ok(Str(RemoveChars(c.s, {"$"}))) ELSE Ok(c)

\* Series.replace(r'[\$,]', '', regex=True) of one cell: text only.
ReplaceCurrency(c) ==
    IF c.t = "str" THEN Ok(Str(RemoveChars(c.s, {"$", ","}))) ELSE Ok(c)

\* Series.str.replace(r'[^\d]', '', regex=True) of one cell.
KeepDigits(c) ==
    IF c.t = "str" THEN Ok(Str(SelectSeq(c.s, LAMBDA x : x \in Digits))) ELSE Ok(c)

\* A percent replacement that strips the sign at the start of the text only.
ReplacePercentLeading(c) ==
    IF c.t = "str" /\ c.s # <<>> /\ Head(c.s) = "%" THEN Ok(Str(Tail(c.s))) ELSE Ok(c)

\* Series.str.replace('%', '') of one cell.
ReplacePercent(c) ==
    IF c.t = "str" THEN Ok(Str(RemoveChars(c.s, {"%"}))) ELSE Ok(c)

TournamentsSuffix == <<" ", "T", "o", "u", "r", "n", "a", "m", "e", "n", "t", "s">>

\* .str.replace(" Tournaments", "").str.replace(",", "") of one cell.
ReplaceTournaments(c) ==
    IF c.t = "str"
    THEN Ok(Str(RemoveChars(RemoveSub(c.s, TournamentsSuffix), {","})))
    ELSE Ok(c)

\* pd.to_numeric(errors='coerce') of one cell: what does not parse is NaN.
ToNumericCoerce(c) ==
    IF c.t = "str"
    THEN IF Strip(c.s) = <<>> THEN Ok(NaN)
         ELSE IF ParseFloat(c.s).exc = "none" THEN ParseFloat(c.s) ELSE Ok(NaN)
    ELSE Ok(c)

\* Series.fillna(0) of one cell.
FillNa0(c) == IF c.t = "nan" THEN Ok(FloatV(0, 0)) ELSE Ok(c)

\* One cell through a chain of conversions; the first exception ends it.
RECURSIVE Chain(_, _)
Chain(c, fs) ==
    IF fs = <<>> THEN Ok(c)
    ELSE LET r == CASE Head(fs) = "astype_str" -> AsStr(c)
                    [] Head(fs) = "astype_float" -> AsFloat(c)
                    [] Head(fs) = "astype_int" -> AsInt(c)
                    [] Head(fs) = "replace_currency" -> ReplaceCurrency(c)
                    [] Head(fs) = "keep_digits" -> KeepDigits(c)
                    [] Head(fs) = "replace_percent" -> ReplacePercent(c)
                    [] Head(fs) = "replace_tournaments" -> ReplaceTournaments(c)
                    [] Head(fs) = "to_numeric_coerce" -> ToNumericCoerce(c)
                    [] Head(fs) = "fillna0" -> FillNa0(c)
         IN  IF r.exc # "none" THEN r ELSE Chain(r.val, Tail(fs))

\* ------------------------------------------------------------ DataFrame operations

None == [cols |-> <<"None">>, rows |-> <<>>]

DataFrame(cols, rows) == [cols |-> cols, rows |-> rows]

InSeq(x, s) == \E i \in 1..Len(s) : s[i] = x

IndexOf(x, s) == CHOOSE i \in 1..Len(s) : s[i] = x

RECURSIVE Flatten(_)
Flatten(ss) == IF ss = <<>> THEN <<>> ELSE Head(ss) \o Flatten(Tail(ss))

\* The union of the frames' column labels, in order of first appearance.
RECURSIVE UnionCols(_)
UnionCols(frames) ==
    IF frames = <<>> THEN <<>>
    ELSE LET before == UnionCols(SubSeq(frames, 1, Len(frames) - 1))
             last == frames[Len(frames)].cols
         IN  before \o SelectSeq(last, LAMBDA c : ~InSeq(c, before))

\* One frame's rows laid out under the labels `cols`: a cell goes under its own
\* label, a label the frame does not have is filled with NaN.
Reindex(f, cols) ==
    [r \in 1..Len(f.rows) |->
        [j \in 1..Len(cols) |->
            IF InSeq(cols[j], f.cols) THEN f.rows[r][IndexOf(cols[j], f.cols)]
            ELSE NaN]]

\* pd.concat(frames, ignore_index=True): rows in frame order, columns aligned
\* by LABEL (outer join of the column indexes).
Concat(frames) ==
    LET cols == UnionCols(frames)
    IN  DataFrame(cols, Flatten([k \in 1..Len(frames) |-> Reindex(frames[k], cols)]))

\* df.columns = names: raises ValueError (length mismatch) unless the frame has
\* exactly Len(names) columns.
SetColumns(df, names) ==
    IF Len(df.cols) # Len(names) THEN Raise("ValueError")
    ELSE Ok(DataFrame(names, df.rows))

\* df.drop(columns=[label])
DropColumn(df, label) ==
    LET keep == SelectSeq([j \in 1..Len(df.cols) |-> j], LAMBDA j : df.cols[j] # label)
    IN  DataFrame([k \in 1..Len(keep) |-> df.cols[keep[k]]],
                  [r \in 1..Len(df.rows) |-> [k \in 1..Len(keep) |-> df.rows[r][keep[k]]]])

\* df.iloc[:, :n]: the first n columns, or all of them when there are fewer.
ILocCols(df, n) ==
    LET m == IF Len(df.cols) < n THEN Len(df.cols) ELSE n
    IN  DataFrame(SubSeq(df.cols, 1, m),
                  [r \in 1..Len(df.rows) |-> SubSeq(df.rows[r], 1, m)])

\* df[[names]]: the named columns, in the order asked.
Select(df, names) ==
    DataFrame(names,
              [r \in 1..Len(df.rows) |->
                  [k \in 1..Len(names) |-> df.rows[r][IndexOf(names[k], df.cols)]]])

\* df[name] = f(df[name]): the conversion chain applied to every cell of the
\* column; one cell that raises, raises for the whole statement.
Assign(df, name, fs) ==
    LET j == IndexOf(name, df.cols)
        out == [r \in 1..Len(df.rows) |-> Chain(df.rows[r][j], fs)]
    IN  IF \E r \in 1..Len(df.rows) : out[r].exc # "none"
        THEN Raise(out[CHOOSE r \in 1..Len(df.rows) :
                           out[r].exc # "none" /\ \A q \in 1..(r - 1) : out[q].exc = "none"].exc)
        ELSE Ok(DataFrame(df.cols,
                          [r \in 1..Len(df.rows) |->
                              [k \in 1..Len(df.cols) |->
                                  IF k = j THEN out[r].val ELSE df.rows[r][k]]]))

\* A drop_duplicates that stops after dropping one repeated row.
RECURSIVE drop_one_duplicate(_)
drop_one_duplicate(rows) ==
    IF \E i \in 1..Len(rows) : \E k \in 1..(i - 1) : rows[k] = rows[i]
    THEN LET i == CHOOSE i \in 1..Len(rows) :
                      /\ \E k \in 1..(i - 1) : rows[k] = rows[i]
                      /\ \A q \in 1..(i - 1) : \A k \in 1..(q - 1) : rows[k] # rows[q]
         IN  SubSeq(rows, 1, i - 1) \o SubSeq(rows, i + 1, Len(rows))
    ELSE rows

\* A drop_duplicates on the first column only (subset=[first column]).
drop_duplicates_by_key(rows) ==
    SelectSeq([i \in 1..Len(rows) |->
                  IF \E k \in 1..(i - 1) : rows[k][1] = rows[i][1] THEN <<>> ELSE rows[i]],
              LAMBDA r : r # <<>>)

\* DataFrame.drop_duplicates() on the rows: a row stays when no earlier row has
\* the same value in every column (keep='first'); NaN equals NaN here.
drop_duplicates(rows) ==
    LET keep == SelectSeq([i \in 1..Len(rows) |-> i],
                          LAMBDA i : \A k \in 1..(i - 1) : rows[k] # rows[i])
    IN  [k \in 1..Len(keep) |-> rows[keep[k]]]

DropDuplicates(df) == DataFrame(df.cols, drop_duplicates(df.rows))

\* ------------------------------------------------------------ the source pages

\* A countries page: seven columns.
CountriesPage ==
    DataFrame(<<"Unnamed: 0", "Country", "Total Earnings", "Players", "Top Game", "Game Earnings", "% of Total">>,
              <<<<Str(<<"1", ".">>), Str(<<"U", "S">>), Str(<<"$", "1", ",", "5", "0", "0", ".", "5", "0">>), Str(<<"2", "5", " ", "P", "l", "a", "y", "e", "r", "s">>), Str(<<"D", "o", "t", "a">>), Str(<<"$", "5", "0", "0">>), Str(<<"4", "5", "%">>)>>>>)

\* A countries page whose total earnings cell is not a number.
CountriesPageUnparsable ==
    DataFrame(<<"Unnamed: 0", "Country", "Total Earnings", "Players", "Top Game", "Game Earnings", "% of Total">>,
              <<<<Str(<<"1", ".">>), Str(<<"U", "S">>), Str(<<"N", "/", "A">>), Str(<<"2", "5", " ", "P", "l", "a", "y", "e", "r", "s">>), Str(<<"D", "o", "t", "a">>), Str(<<"$", "5", "0", "0">>), Str(<<"4", "5", "%">>)>>>>)

\* A players page: six columns.
PlayersPage ==
    DataFrame(<<"Player ID", "Player Name", "Total (Overall)", "Highest Paying Game", "Total (Game)", "% of Total">>,
              <<<<Str(<<"N", "0", "t", "a", "i", "l">>), Str(<<"J", "o", "h", "a", "n">>), Str(<<"$", "7", ",", "1", "8", "4">>), Str(<<"D", "o", "t", "a">>), Str(<<"$", "7", ",", "1", "7", "2">>), Str(<<"9", "9", ".", "8", "4", "%">>)>>>>)

\* The same page read with the stray first column (label 'A-circumflex', written A_circ).
PlayersPageMarked ==
    DataFrame(<<"A_circ", "Player ID", "Player Name", "Total (Overall)", "Highest Paying Game", "Total (Game)", "% of Total">>,
              <<<<NaN, Str(<<"N", "0", "t", "a", "i", "l">>), Str(<<"J", "o", "h", "a", "n">>), Str(<<"$", "7", ",", "1", "8", "4">>), Str(<<"D", "o", "t", "a">>), Str(<<"$", "7", ",", "1", "7", "2">>), Str(<<"9", "9", ".", "8", "4", "%">>)>>>>)

\* A tournaments page: four columns.
TournamentsPage ==
    DataFrame(<<"Unnamed: 0", "Tournament Name", "Prize Money", "Game">>,
              <<<<Str(<<"1", ".">>), Str(<<"T", "I", "1", "0">>), Str(<<"$", "4", "0", ",", "0", "1", "8">>), Str(<<"D", "o", "t", "a">>)>>>>)

\* A tournaments page with a fifth column.
TournamentsPageWide ==
    DataFrame(<<"Unnamed: 0", "Tournament Name", "Prize Money", "Game", "Teams">>,
              <<<<Str(<<"2", ".">>), Str(<<"T", "I", "9">>), Str(<<"$", "3", "4", ",", "3", "3", "0">>), Str(<<"D", "o", "t", "a">>), Str(<<"1", "8", " ", "T", "e", "a", "m", "s">>)>>>>)

\* A teams page: four columns; TeamA twice under two ranks and two spellings of its revenue, and a count that is no number.
TeamsPage ==
    DataFrame(<<"Unnamed: 0", "Team Name", "Total Earnings", "Tournaments">>,
              <<<<Str(<<"1", ".">>), Str(<<"T", "e", "a", "m", "A">>), Str(<<"$", "5", "0", "0">>), Str(<<"1", "0", " ", "T", "o", "u", "r", "n", "a", "m", "e", "n", "t", "s">>)>>,
                <<Str(<<"2", ".">>), Str(<<"T", "e", "a", "m", "A">>), Str(<<"$", "5", "0", "0", ".", "0", "0">>), Str(<<"1", "0", " ", "T", "o", "u", "r", "n", "a", "m", "e", "n", "t", "s">>)>>,
                <<Str(<<"3", ".">>), Str(<<"T", "e", "a", "m", "B">>), Str(<<"$", "1", ",", "3", "0", "0">>), Str(<<"u", "n", "k", "n", "o", "w", "n">>)>>>>)

\* A teams page whose first header cell reads differently.
TeamsPageRelabelled ==
    DataFrame(<<"Rank", "Team Name", "Total Earnings", "Tournaments">>,
              <<<<Str(<<"5", ".">>), Str(<<"T", "e", "a", "m", "D">>), Str(<<"$", "1", "0", "0">>), Str(<<"1", " ", "T", "o", "u", "r", "n", "a", "m", "e", "n", "t", "s">>)>>>>)

\* A teams page without the rank column: three columns.
TeamsPageNoRank ==
    DataFrame(<<"Team Name", "Total Earnings", "Tournaments">>,
              <<<<Str(<<"T", "e", "a", "m", "A">>), Str(<<"$", "5", "0", "0">>), Str(<<"1", "0", " ", "T", "o", "u", "r", "n", "a", "m", "e", "n", "t", "s">>)>>,
                <<Str(<<"T", "e", "a", "m", "A">>), Str(<<"$", "5", "0", "0">>), Str(<<"1", "0", " ", "T", "o", "u", "r", "n", "a", "m", "e", "n", "t", "s">>)>>,
                <<Str(<<"T", "e", "a", "m", "B">>), Str(<<"$", "3", "0", "0">>), Str(<<"4", " ", "T", "o", "u", "r", "n", "a", "m", "e", "n", "t", "s">>)>>>>)


Order == <<"countries", "players", "tournaments", "teams">>

Datasets == {"countries", "players", "tournaments", "teams"}

\* What a source page can hold when it answers with a table.
Pages(d) ==
    CASE d = "countries" -> {CountriesPage, CountriesPageUnparsable}
      [] d = "players" -> {PlayersPage, PlayersPageMarked}
      [] d = "tournaments" -> {TournamentsPage, TournamentsPageWide}
      [] d = "teams" -> {TeamsPage, TeamsPageRelabelled, TeamsPageNoRank}

\* How a page read can end without a table: the request fails or times out,
\* the page holds no table (read_html raises), or the list of tables is empty.
FetchFailures == {"network_error", "no_tables_found", "empty_list"}

\* What one read of one page locator can do.
Outcomes(d) ==
    {[kind |-> k, table |-> None] : k \in FetchFailures}
        \cup {[kind |-> "table", table |-> p] : p \in Pages(d)}

\* The number of page locators of each dataset.
NumUrls(d) ==
    CASE d = "countries" -> 1
      [] d = "players" -> 11
      [] d = "tournaments" -> 5
      [] d = "teams" -> 5

\* ------------------------------------------------------------ bounds

\* At most this many pages of one dataset answer with a table in one run.
MaxFrames == 2

\* The longest input of the deduplicator taken alone.
MaxLen == 4

\* ------------------------------------------------------------ fetching

\* pd.read_html(url): the list of the page's tables, or an exception.
read_html(outcome) ==
    CASE outcome.kind = "table" -> [exc |-> "none", val |-> <<outcome.table>>]
      [] outcome.kind = "empty_list" -> [exc |-> "none", val |-> <<>>]
      [] OTHER -> [exc |-> "Exception", val |-> <<>>]

\* A fetch_html_table without its try/except.
fetch_html_table_uncaught(outcome) ==
    LET tables == read_html(outcome)
    IN  IF tables.exc # "none" THEN [exc |-> tables.exc, val |-> None]
        ELSE [exc |-> "none", val |-> IF tables.val # <<>> THEN tables.val[1] ELSE None]

\* fetch_html_table(url): the first table of the page; None when there is no
\* table or when read_html raised, whatever it raised.
fetch_html_table(outcome) ==
    LET tables == read_html(outcome)
    IN  IF tables.exc # "none" THEN [exc |-> "none", val |-> None]
        ELSE [exc |-> "none", val |-> IF tables.val # <<>> THEN tables.val[1] ELSE None]

\* A fetch_multiple_tables that returns an empty frame, not None, when no page
\* gave a table.
fetch_multiple_tables_unguarded(fs) ==
    LET kept == SelectSeq(fs, LAMBDA f : f # None)
    IN  Concat(kept)

\* fetch_multiple_tables, after the fetches: the frames that are not None,
\* concatenated, or None when there is none.
fetch_multiple_tables(fs) ==
    LET kept == SelectSeq(fs, LAMBDA f : f # None)
    IN  IF kept = <<>> THEN None ELSE Concat(kept)

\* ------------------------------------------------------------ renaming and cleaning

\* The statements of the scrape functions that rename and clean.
SetCols(names) == [op |-> "set_columns", name |-> "", arg |-> names]
DropIfPresent(label) == [op |-> "drop_if_present", name |-> label, arg |-> <<>>]
FirstCols(n) == [op |-> "iloc_cols", name |-> "", arg |-> <<n>>]
Set(name, fs) == [op |-> "assign", name |-> name, arg |-> fs]

\* One statement on the frame.
Exec(df, stmt) ==
    CASE stmt.op = "set_columns" -> SetColumns(df, stmt.arg)
      [] stmt.op = "drop_if_present" ->
            IF InSeq(stmt.name, df.cols) THEN Ok(DropColumn(df, stmt.name)) ELSE Ok(df)
      [] stmt.op = "iloc_cols" -> Ok(ILocCols(df, stmt.arg[1]))
      [] stmt.op = "assign" -> Assign(df, stmt.name, stmt.arg)

\* The statements in order; the first exception leaves the function.
\* (r \in {...} binds the value of one statement once.)
RECURSIVE ExecAll(_, _)
ExecAll(df, stmts) ==
    IF stmts = <<>> THEN Ok(df)
    ELSE CHOOSE res \in {IF r.exc # "none" THEN r ELSE ExecAll(r.val, Tail(stmts)) :
                             r \in {Exec(df, Head(stmts))}} : TRUE

\* scrape_countries, lines 118-129.
CleanCountries ==
    << SetCols(<<"rank", "name", "total_earnings", "num_players",
                 "top_game", "game_earnings", "game_percent">>),
       Set("name", <<"astype_str">>),
       Set("total_earnings", <<"replace_currency", "astype_float">>),
       Set("num_players", <<"astype_str", "keep_digits", "astype_int">>),
       Set("top_game", <<"astype_str">>),
       Set("game_earnings", <<"replace_currency", "astype_float">>),
       Set("game_percent", <<"astype_str", "replace_percent", "astype_float">>) >>

\* scrape_players, lines 149-163.
CleanPlayers ==
    << DropIfPresent("A_circ"),
       SetCols(<<"player_id", "player_name", "total_earnings",
                 "main_game", "game_earnings", "earnings_percent">>),
       Set("player_id", <<"astype_str">>),
       Set("player_name", <<"astype_str">>),
       Set("total_earnings", <<"replace_currency", "astype_float", "astype_int">>),
       Set("main_game", <<"astype_str">>),
       Set("earnings_percent", <<"astype_str", "replace_percent", "astype_float">>) >>

\* scrape_tournaments, lines 200-204.
CleanTournaments ==
    << FirstCols(4),
       SetCols(<<"rank", "tournament_name", "prize_pool", "game">>),
       Set("prize_pool", <<"replace_currency", "astype_float", "astype_int">>) >>

\* scrape_teams, lines 228-234.
CleanTeams ==
    << SetCols(<<"rank", "team_name", "revenue", "tournaments_played">>),
       Set("team_name", <<"astype_str">>),
       Set("revenue", <<"replace_currency", "astype_float", "astype_int">>),
       Set("tournaments_played", <<"astype_str", "replace_tournaments">>),
       Set("tournaments_played", <<"to_numeric_coerce", "fillna0", "astype_int">>) >>

\* The renaming and cleaning of dataset d on its aggregated frame.
Clean(d, df) ==
    CASE d = "countries" -> ExecAll(df, CleanCountries)
      [] d = "players" -> ExecAll(df, CleanPlayers)
      [] d = "tournaments" -> ExecAll(df, CleanTournaments)
      [] d = "teams" -> ExecAll(df, CleanTeams)

\* The columns each scrape function keeps and inserts.
Columns(d) ==
    CASE d = "countries" -> <<"name", "total_earnings", "num_players", "top_game",
                              "game_earnings", "game_percent">>
      [] d = "players" -> <<"player_id", "player_name", "total_earnings", "main_game",
                            "earnings_percent">>
      [] d = "tournaments" -> <<"tournament_name", "prize_pool", "game">>
      [] d = "teams" -> <<"team_name", "revenue", "tournaments_played">>

\* A scrape function that drops the repeated rows before it selects the
\* canonical columns.
DeduplicateThenSelect(d, df) ==
    CHOOSE res \in {Select(dd, Columns(d)) : dd \in {DropDuplicates(df)}} : TRUE

\* The final selection and deduplication of each scrape function.
SelectAndDeduplicate(d, df) ==
    CHOOSE res \in {DropDuplicates(sel) : sel \in {Select(df, Columns(d))}} : TRUE

\* ------------------------------------------------------------ the store

Null == [t |-> "null", s |-> <<>>, n |-> 0, e |-> 0]

Col(name, type) == [name |-> name, type |-> type]

\* The columns of the CREATE TABLE statements, the AUTO_INCREMENT key left out.
TableDef(t) ==
    CASE t = "countries" -> <<Col("name", "VARCHAR"), Col("total_earnings", "BIGINT"),
                              Col("num_players", "INT"), Col("top_game", "VARCHAR"),
                              Col("game_earnings", "BIGINT"), Col("game_percent", "FLOAT")>>
      [] t = "players" -> <<Col("player_id", "VARCHAR"), Col("player_name", "VARCHAR"),
                            Col("total_earnings", "BIGINT"), Col("main_game", "VARCHAR"),
                            Col("earnings_percent", "FLOAT")>>
      [] t = "tournaments" -> <<Col("tournament_name", "VARCHAR"), Col("prize_pool", "BIGINT"),
                                Col("game", "VARCHAR"), Col("participate_team", "INT"),
                                Col("no_of_player", "INT")>>
      [] t = "teams" -> <<Col("team_name", "VARCHAR"), Col("revenue", "INT"),
                          Col("tournaments_played", "INT")>>

NoTable == [exists |-> FALSE, cols |-> <<>>, rows |-> <<>>]

\* CREATE TABLE without IF NOT EXISTS: an existing relation is an error.
CreateTable(tbl, def) ==
    IF tbl.exists THEN [exc |-> "Error", tbl |-> tbl]
    ELSE [exc |-> "none", tbl |-> [exists |-> TRUE, cols |-> def, rows |-> <<>>]]

\* CREATE TABLE IF NOT EXISTS: an existing relation is left as it is, without
\* an error.
CreateTableIfNotExists(tbl, def) ==
    IF tbl.exists THEN [exc |-> "none", tbl |-> tbl]
    ELSE [exc |-> "none", tbl |-> [exists |-> TRUE, cols |-> def, rows |-> <<>>]]

\* CREATE DATABASE IF NOT EXISTS esports_data.
CreateDatabaseIfNotExists(st) ==
    IF st.db THEN st ELSE [db |-> TRUE, tables |-> [t \in Datasets |-> NoTable]]

\* A number n / 10^e rounded to the nearest integer, halves away from zero: what
\* the server does with a decimal literal sent to an integer column.
RoundHalfAway(n, e) ==
    IF e = 0 THEN n
    ELSE IF n >= 0 THEN (2 * n + Pow10(e)) \div (2 * Pow10(e))
    ELSE 0 - ((2 * (0 - n) + Pow10(e)) \div (2 * Pow10(e)))

\* The value a column of the given type holds after an INSERT of v.
StoreValue(v, type) ==
    CASE v.t = "nan" -> Null
      [] v.t = "float" /\ type \in {"BIGINT", "INT"} -> IntV(RoundHalfAway(v.n, v.e))
      [] v.t = "int" /\ type = "FLOAT" -> FloatV(v.n, 0)
      [] OTHER -> v

ColNames(tbl) == [k \in 1..Len(tbl.cols) |-> tbl.cols[k].name]

\* An INSERT that skips the records the relation holds already.
NewRowsNotPresent(tbl, df, columns) ==
    SelectSeq([r \in 1..Len(df.rows) |->
                  [k \in 1..Len(tbl.cols) |->
                      IF InSeq(tbl.cols[k].name, columns)
                      THEN StoreValue(df.rows[r][IndexOf(tbl.cols[k].name, df.cols)],
                                      tbl.cols[k].type)
                      ELSE Null]],
              LAMBDA row : ~InSeq(row, tbl.rows))

\* The rows an INSERT INTO table (columns) VALUES ... adds: one per record, a
\* column the statement does not name is NULL.
NewRows(tbl, df, columns) ==
    [r \in 1..Len(df.rows) |->
        [k \in 1..Len(tbl.cols) |->
            IF InSeq(tbl.cols[k].name, columns)
            THEN StoreValue(df.rows[r][IndexOf(tbl.cols[k].name, df.cols)], tbl.cols[k].type)
            ELSE Null]]

\* What can go wrong at the store during one call, chosen by the environment.
InitFaults == {"none", "connect", "create_database", "use", "create_table"}

\* "insert" fails on the first record of the batch, "insert_late" after the
\* server has accepted the first record.
LoadFaults == {"none", "connect", "use", "insert", "insert_late"}

\* The loop over the CREATE TABLE statements from the k-th on, in dictionary
\* order. DDL is not transactional: the statements before a failing one have
\* taken effect.
RECURSIVE CreateTables(_, _, _, _)
CreateTables(st, k, fault, at) ==
    IF k > 4 THEN [exc |-> "none", store |-> st, open |-> 0]
    ELSE IF fault = "create_table" /\ at = k THEN [exc |-> "Error", store |-> st, open |-> 1]
    ELSE CHOOSE res \in
            {IF r.exc # "none" THEN [exc |-> r.exc, store |-> st, open |-> 1]
             ELSE CreateTables([st EXCEPT !.tables[Order[k]] = r.tbl], k + 1, fault, at) :
                r \in {CreateTableIfNotExists(st.tables[Order[k]], TableDef(Order[k]))}} : TRUE

\* init_database(): connect, CREATE DATABASE IF NOT EXISTS, USE, the four
\* CREATE TABLE IF NOT EXISTS, commit, close. No statement is guarded: an
\* exception leaves the function at once, with the connection still open.
\* `fault` is the statement the environment makes fail, `at` the table of a
\* failing CREATE TABLE.
init_database(st, fault, at) ==
    CASE fault = "connect" -> [exc |-> "Error", store |-> st, open |-> 0]
      [] fault = "create_database" -> [exc |-> "Error", store |-> st, open |-> 1]
      [] fault = "use" ->
            [exc |-> "Error", store |-> CreateDatabaseIfNotExists(st), open |-> 1]
      [] OTHER -> CreateTables(CreateDatabaseIfNotExists(st), 1, fault, at)

NoStatus == [line |-> "none", n |-> 0]

\* cursor.executemany(query, data): the rows the server has accepted inside the
\* open transaction when the call ends, and the exception that ended it.
executemany(tbl, df, columns, fault) ==
    LET insertable == /\ tbl.exists
                      /\ \A k \in 1..Len(columns) : InSeq(columns[k], ColNames(tbl))
    IN  IF fault = "insert" \/ ~insertable THEN [exc |-> "Error", pending |-> <<>>]
        ELSE IF fault = "insert_late"
        THEN [exc |-> "Error", pending |-> SubSeq(NewRows(tbl, df, columns), 1, 1)]
        ELSE [exc |-> "none", pending |-> NewRows(tbl, df, columns)]

\* An insert_into_mysql that empties the relation before it writes the batch.
insert_into_mysql_replacing(df, table, columns, st, fault) ==
    IF df = None \/ df.rows = <<>> \/ df.cols = <<>>
    THEN [exc |-> "none", store |-> st, open |-> 0,
          status |-> [line |-> "no_data_for_table", n |-> 0]]
    ELSE IF fault = "connect"
    THEN [exc |-> "Error", store |-> st, open |-> 0, status |-> NoStatus]
    ELSE IF fault = "use" \/ ~st.db
    THEN [exc |-> "Error", store |-> st, open |-> 1, status |-> NoStatus]
    ELSE CHOOSE res \in
            {IF w.exc # "none"
             THEN [exc |-> "none", store |-> st, open |-> 0,
                   status |-> [line |-> "insert_error", n |-> 0]]
             ELSE [exc |-> "none",
                   store |-> [st EXCEPT !.tables[table].rows = w.pending],
                   open |-> 0,
                   status |-> [line |-> "inserted", n |-> Len(w.pending)]] :
                w \in {executemany(st.tables[table], df, columns, fault)}} : TRUE

\* An insert_into_mysql on a connection in autocommit mode: every accepted
\* record is committed at once.
insert_into_mysql_autocommit(df, table, columns, st, fault) ==
    IF df = None \/ df.rows = <<>> \/ df.cols = <<>>
    THEN [exc |-> "none", store |-> st, open |-> 0,
          status |-> [line |-> "no_data_for_table", n |-> 0]]
    ELSE IF fault = "connect"
    THEN [exc |-> "Error", store |-> st, open |-> 0, status |-> NoStatus]
    ELSE IF fault = "use" \/ ~st.db
    THEN [exc |-> "Error", store |-> st, open |-> 1, status |-> NoStatus]
    ELSE CHOOSE res \in
            {[exc |-> "none",
              store |-> [st EXCEPT !.tables[table].rows = @ \o w.pending],
              open |-> 0,
              status |-> IF w.exc # "none" THEN [line |-> "insert_error", n |-> 0]
                         ELSE [line |-> "inserted", n |-> Len(w.pending)]] :
                w \in {executemany(st.tables[table], df, columns, fault)}} : TRUE

\* An insert_into_mysql that also empties the relation after its own in the
\* order of the datasets.
insert_into_mysql_clearing(df, table, columns, st, fault) ==
    IF df = None \/ df.rows = <<>> \/ df.cols = <<>>
    THEN [exc |-> "none", store |-> st, open |-> 0,
          status |-> [line |-> "no_data_for_table", n |-> 0]]
    ELSE IF fault = "connect"
    THEN [exc |-> "Error", store |-> st, open |-> 0, status |-> NoStatus]
    ELSE IF fault = "use" \/ ~st.db
    THEN [exc |-> "Error", store |-> st, open |-> 1, status |-> NoStatus]
    ELSE CHOOSE res \in
            {IF w.exc # "none"
             THEN [exc |-> "none", store |-> st, open |-> 0,
                   status |-> [line |-> "insert_error", n |-> 0]]
             ELSE [exc |-> "none",
                   store |-> [st EXCEPT !.tables[table].rows = @ \o w.pending,
                                        !.tables[Order[(IndexOf(table, Order) % 4) + 1]].rows = <<>>],
                   open |-> 0,
                   status |-> [line |-> "inserted", n |-> Len(w.pending)]] :
                w \in {executemany(st.tables[table], df, columns, fault)}} : TRUE

\* insert_into_mysql(df, table, columns). The connection and the USE statement
\* are outside the try block: their exceptions leave the function. An exception
\* of the INSERT is caught and printed; conn.commit() was not reached, so the
\* rows the server had accepted are discarded when the connection is closed.
\* Without an exception the batch is committed and cursor.rowcount printed.
insert_into_mysql(df, table, columns, st, fault) ==
    IF df = None \/ df.rows = <<>> \/ df.cols = <<>>
    THEN [exc |-> "none", store |-> st, open |-> 0,
          status |-> [line |-> "no_data_for_table", n |-> 0]]
    ELSE IF fault = "connect"
    THEN [exc |-> "Error", store |-> st, open |-> 0, status |-> NoStatus]
    ELSE IF fault = "use" \/ ~st.db
    THEN [exc |-> "Error", store |-> st, open |-> 1, status |-> NoStatus]
    ELSE CHOOSE res \in
            {IF w.exc # "none"
             THEN [exc |-> "none", store |-> st, open |-> 0,
                   status |-> [line |-> "insert_error", n |-> 0]]
             ELSE [exc |-> "none",
                   store |-> [st EXCEPT !.tables[table].rows = @ \o w.pending],
                   open |-> 0,
                   status |-> [line |-> "inserted", n |-> Len(w.pending)]] :
                w \in {executemany(st.tables[table], df, columns, fault)}} : TRUE

\* ------------------------------------------------------------ the stores a run can meet

\* A server without the esports_data database.
FreshServer == [db |-> FALSE, tables |-> [t \in Datasets |-> NoTable]]

\* The first page of each dataset, as an earlier run read it.
FirstPage(d) ==
    CASE d = "countries" -> CountriesPage
      [] d = "players" -> PlayersPage
      [] d = "tournaments" -> TournamentsPage
      [] d = "teams" -> TeamsPage

RECURSIVE LoadedUpTo(_)
LoadedUpTo(k) ==
    IF k = 0 THEN init_database(FreshServer, "none", 1).store
    ELSE CHOOSE res \in
            {insert_into_mysql(recs, Order[k], Columns(Order[k]), st, "none").store :
                recs \in {SelectAndDeduplicate(Order[k], Clean(Order[k], FirstPage(Order[k])).val)},
                st \in {LoadedUpTo(k - 1)}} : TRUE

\* The server as an earlier complete run of main() left it.
LoadedServer == LoadedUpTo(4)

\* ------------------------------------------------------------ state

VARIABLES
    pc,         \* where main() is: "init_database", "scrape", "end"
    cur,        \* the index in Order of the scrape function main() is at
    state,      \* per dataset, the state of its run
    url,        \* the index of the next page locator of the running dataset
    frames,     \* the frames collected so far by the running dataset
    served,     \* the tables the source has served to the running dataset, in locator order
    df,         \* the frame of the running dataset
    store,      \* the MySQL server: the database and its relations
    exc,        \* the exception that left main(), "none" while there is none
    status,     \* per dataset, the status line printed for it
    open,       \* the connections opened and not closed
    fault,      \* the store fault the environment injected into the last store call
    lastFetch,  \* the last fetch_html_table call: the table the page held (None when
                \* the read failed), the exception that left the call, its result
    call,       \* a function taken alone: its name, argument and results
    catalog,    \* the catalog imports of the entry point: the index of the next one and
                \* the relations loaded so far
    waiting,    \* TRUE while read_html is blocked on a source that does not answer
    setup       \* the setup script: where it is, what it found, what it printed

vars == <<pc, cur, state, url, frames, served, df, store, exc, status, open, fault,
          lastFetch, call, catalog, waiting, setup>>

NoCall == [fn |-> "none", arg |-> <<>>, res |-> <<>>, again |-> <<>>, done |-> 0]

\* No catalog import has run.
NoCatalog == [next |-> 1, loaded |-> <<>>]

\* The setup script is not running.
NoSetup == [pc |-> "none"]

Running == IF pc = "scrape" /\ cur <= 4 THEN Order[cur] ELSE "none"

Init ==
    /\ pc = "init_database"
    /\ cur = 1
    /\ state = [d \in Datasets |-> "NotStarted"]
    /\ url = 1
    /\ frames = <<>>
    /\ served = <<>>
    /\ df = None
    /\ store \in {FreshServer, LoadedServer}
    /\ exc = "none"
    /\ status = [d \in Datasets |-> NoStatus]
    /\ open = 0
    /\ fault = "none"
    /\ lastFetch = [page |-> None, exc |-> "none", val |-> None]
    /\ catalog = NoCatalog
    /\ waiting = FALSE
    /\ setup = NoSetup
    /\ call = NoCall

\* ------------------------------------------------------------ main()

\* main() calls init_database(); its exception, if any, leaves main().
InitDatabase ==
    /\ pc = "init_database"
    /\ \E f \in InitFaults : \E at \in 1..4 :
          /\ f # "create_table" => at = 1
          /\ \E r \in {init_database(store, f, at)} :
                 /\ store' = r.store
                 /\ open' = open + r.open
                 /\ exc' = r.exc
                 /\ pc' = IF r.exc = "none" THEN "scrape" ELSE "end"
                 /\ fault' = f
    /\ UNCHANGED <<cur, state, url, frames, served, df, status, lastFetch, call, catalog, waiting, setup>>

\* main() calls the next scrape function, which builds its locators.
CallScrape ==
    /\ pc = "scrape" /\ cur <= 4
    /\ state[Order[cur]] = "NotStarted"
    /\ state' = [state EXCEPT ![Order[cur]] = "Init"]
    /\ url' = 1
    /\ frames' = <<>>
    /\ served' = <<>>
    /\ df' = None
    /\ UNCHANGED <<pc, cur, store, exc, status, open, fault, lastFetch, call, catalog, waiting, setup>>

\* The exception x leaves the running scrape function and main() with it.
Crash(d, x) ==
    /\ state' = [state EXCEPT ![d] = "Crashed"]
    /\ exc' = x
    /\ pc' = "end"

\* One page of countries, players or teams is read through fetch_html_table.
\* `frames` holds the results that are not None: the None results, which
\* fetch_multiple_tables filters out before it concatenates, are not kept.
FetchPage ==
    /\ Running \in {"countries", "players", "teams"}
    /\ ~waiting
    /\ state[Running] \in {"Init", "Aggregating"}
    /\ url <= NumUrls(Running)
    /\ \E o \in Outcomes(Running) :
          /\ o.kind = "table" => Len(served) < MaxFrames
          /\ \E r \in {fetch_html_table(o)} :
                 /\ lastFetch' = [page |-> o.table, exc |-> r.exc, val |-> r.val]
                 /\ served' = IF o.kind = "table" THEN Append(served, o.table) ELSE served
                 /\ IF r.exc # "none"
                    THEN /\ Crash(Running, r.exc)
                         /\ UNCHANGED <<url, frames>>
                    ELSE /\ frames' = IF r.val # None THEN Append(frames, r.val) ELSE frames
                         /\ url' = url + 1
                         /\ state' = [state EXCEPT ![Running] = "Aggregating"]
                         /\ UNCHANGED <<pc, exc>>
    /\ UNCHANGED <<cur, df, store, status, open, fault, call, catalog, waiting, setup>>

\* One page of tournaments is read by the loop of scrape_tournaments itself.
FetchTournamentsPage ==
    /\ Running = "tournaments"
    /\ ~waiting
    /\ state[Running] \in {"Init", "Aggregating"}
    /\ url <= NumUrls(Running)
    /\ \E o \in Outcomes(Running) :
          /\ o.kind = "table" => Len(served) < MaxFrames
          /\ \E tables \in {read_html(o)} :
                 /\ served' = IF o.kind = "table" THEN Append(served, o.table) ELSE served
                 /\ frames' = IF tables.exc = "none" /\ tables.val # <<>>
                              THEN Append(frames, tables.val[1])
                              ELSE frames
    /\ url' = url + 1
    /\ state' = [state EXCEPT ![Running] = "Aggregating"]
    /\ UNCHANGED <<pc, cur, df, store, exc, status, open, fault, lastFetch, call, catalog, waiting, setup>>

\* The frame a scrape function works on once its pages are read.
Aggregated(d, fs) ==
    CASE d = "countries" -> IF fs # <<>> THEN fs[1] ELSE None
      [] d = "tournaments" -> IF fs # <<>> THEN Concat(fs) ELSE None
      [] OTHER -> fetch_multiple_tables(fs)

\* All locators are read: the frames are concatenated. Without any frame the
\* function prints that there is no data and returns.
Aggregate ==
    /\ Running # "none"
    /\ state[Running] \in {"Init", "Aggregating"}
    /\ url > NumUrls(Running)
    /\ \E a \in {Aggregated(Running, frames)} :
           /\ df' = a
           /\ IF a = None
              THEN /\ state' = [state EXCEPT ![Running] = "Skipped"]
                   /\ status' = [status EXCEPT ![Running] = [line |-> "no_data_found", n |-> 0]]
                   /\ cur' = cur + 1
              ELSE /\ state' = [state EXCEPT ![Running] = "Normalizing"]
                   /\ UNCHANGED <<status, cur>>
    /\ UNCHANGED <<pc, url, frames, served, store, exc, open, fault, lastFetch, call, catalog, waiting, setup>>

\* The columns are renamed by position and the fields cleaned.
Normalize ==
    /\ Running # "none"
    /\ state[Running] = "Normalizing"
    /\ \E r \in {Clean(Running, df)} :
           IF r.exc # "none"
           THEN /\ Crash(Running, r.exc)
                /\ UNCHANGED df
           ELSE /\ df' = r.val
                /\ state' = [state EXCEPT ![Running] = "Deduplicating"]
                /\ UNCHANGED <<pc, exc>>
    /\ UNCHANGED <<cur, url, frames, served, store, status, open, fault, lastFetch, call, catalog, waiting, setup>>

\* The canonical columns are selected and repeated records dropped.
Deduplicate ==
    /\ Running # "none"
    /\ state[Running] = "Deduplicating"
    /\ df' = SelectAndDeduplicate(Running, df)
    /\ state' = [state EXCEPT ![Running] = "Loading"]
    /\ UNCHANGED <<pc, cur, url, frames, served, store, exc, status, open, fault,
                   lastFetch, call, catalog, waiting, setup>>

\* insert_into_mysql is called with the records; the scrape function returns.
Load ==
    /\ Running # "none"
    /\ state[Running] = "Loading"
    /\ \E f \in LoadFaults :
          \E r \in {insert_into_mysql(df, Running, Columns(Running), store, f)} :
              /\ store' = r.store
              /\ open' = open + r.open
              /\ status' = [status EXCEPT ![Running] = r.status]
              /\ fault' = f
              /\ IF r.exc # "none"
                 THEN /\ Crash(Running, r.exc)
                      /\ UNCHANGED cur
                 ELSE /\ state' = [state EXCEPT ![Running] =
                              CASE r.status.line = "inserted" -> "Done"
                                [] r.status.line = "insert_error" -> "Failed"
                                [] OTHER -> "Skipped"]
                      /\ cur' = cur + 1
                      /\ UNCHANGED <<pc, exc>>
    /\ UNCHANGED <<url, frames, served, df, lastFetch, call, catalog, waiting, setup>>

\* The last scrape function has returned: main() prints its last line and ends.
Finish ==
    /\ pc = "scrape" /\ cur = 5
    /\ pc' = "end"
    /\ UNCHANGED <<cur, state, url, frames, served, df, store, exc, status, open, fault,
                   lastFetch, call, catalog, waiting, setup>>

Next ==
    \/ InitDatabase
    \/ CallScrape
    \/ FetchPage
    \/ FetchTournamentsPage
    \/ Aggregate
    \/ Normalize
    \/ Deduplicate
    \/ Load
    \/ Finish

Spec == Init /\ [][Next]_vars

\* ------------------------------------------------------------ the entry point of data_scraper.py

\* The catalog imports of the entry point, in order: the file and the relation.
CatalogImports ==
    << [csv |-> "VideoGames.csv", table |-> "VideoGames"],
       [csv |-> "Steam.csv", table |-> "SteamData"],
       [csv |-> "Gaming_trends.csv", table |-> "GamingTrends"] >>

\* How one import can go: the file is read and the store takes the rows, the
\* file is missing or unreadable, the store refuses.
ImportOutcomes == {"ok", "file_error", "store_error"}

\* import_csv_to_db(csv_path, table_name, engine): pd.read_csv, then
\* df.to_sql(..., if_exists='append') through an engine bound to the database
\* esports_data, which must exist. Nothing is caught: the exception it ends
\* with, "none" when it returns.
import_csv_to_db(outcome, st) ==
    IF outcome = "file_error" THEN "FileNotFoundError"
    ELSE IF outcome = "store_error" \/ ~st.db THEN "OperationalError"
    ELSE "none"

InitEntry ==
    /\ pc = "import_csv"
    /\ cur = 1
    /\ state = [d \in Datasets |-> "NotStarted"]
    /\ url = 1
    /\ frames = <<>>
    /\ served = <<>>
    /\ df = None
    /\ store \in {FreshServer, LoadedServer}
    /\ exc = "none"
    /\ status = [d \in Datasets |-> NoStatus]
    /\ open = 0
    /\ fault = "none"
    /\ lastFetch = [page |-> None, exc |-> "none", val |-> None]
    /\ catalog = NoCatalog
    /\ waiting = FALSE
    /\ setup = NoSetup
    /\ call = NoCall

\* The entry point calls the next import_csv_to_db; after the third it calls
\* main(). An exception of an import leaves the script.
ImportCsv ==
    /\ pc = "import_csv"
    /\ \E o \in ImportOutcomes : \E x \in {import_csv_to_db(o, store)} :
          IF x # "none"
          THEN /\ exc' = x
               /\ pc' = "end"
               /\ UNCHANGED catalog
          ELSE /\ catalog' = [next |-> catalog.next + 1,
                              loaded |-> Append(catalog.loaded,
                                                CatalogImports[catalog.next].table)]
               /\ pc' = IF catalog.next = Len(CatalogImports) THEN "init_database"
                         ELSE "import_csv"
               /\ UNCHANGED exc
    /\ UNCHANGED <<cur, state, url, frames, served, df, store, status, open, fault,
                   lastFetch, call, waiting, setup>>

\* pd.read_html(url) is called without a timeout: when the source accepts the
\* request and never answers, the call does not return.
FetchBlocks ==
    /\ Running # "none"
    /\ ~waiting
    /\ state[Running] \in {"Init", "Aggregating"}
    /\ url <= NumUrls(Running)
    /\ waiting' = TRUE
    /\ state' = [state EXCEPT ![Running] = "Aggregating"]
    /\ UNCHANGED <<pc, cur, url, frames, served, df, store, exc, status, open, fault,
                   lastFetch, call, catalog, setup>>

NextEntry ==
    \/ ImportCsv
    \/ Next
    \/ FetchBlocks

SpecEntry == InitEntry /\ [][NextEntry]_vars

\* ------------------------------------------------------------ setup_database.py

\* How check_mysql_connection's body can go.
MysqlOutcomes == {"ok", "import_error", "refused", "denied"}

\* How subprocess.run can go: the child process ends with a return code
\* (negative when a signal killed it), or the process cannot be started.
ScraperOutcomes ==
    {[kind |-> "exit", code |-> c] : c \in {0, 1, 2, 3, 120, 0 - 9, 0 - 15}}
        \cup {[kind |-> k, code |-> 0] : k \in {"os_error", "permission_error"}}

\* check_mysql_connection(): True when the connection opens; every exception
\* is caught and gives False.
check_mysql_connection(m) == m = "ok"

\* A run_data_scraper that does not look at the return code.
run_data_scraper_unchecked(o) ==
    IF o.kind # "exit" THEN [started |-> FALSE, ok |-> FALSE, said |-> <<"error_running">>]
    ELSE [started |-> TRUE, ok |-> TRUE, said |-> <<"scraper_completed">>]

\* run_data_scraper(): True when the child process ran and returned 0, False
\* when it returned another code or could not be started.
run_data_scraper(o) ==
    IF o.kind # "exit" THEN [started |-> FALSE, ok |-> FALSE, said |-> <<"error_running">>]
    ELSE IF o.code = 0 THEN [started |-> TRUE, ok |-> TRUE, said |-> <<"scraper_completed">>]
    ELSE [started |-> TRUE, ok |-> FALSE, said |-> <<"scraper_failed">>]

InitSetup ==
    /\ pc = "none"
    /\ cur = 1
    /\ state = [d \in Datasets |-> "NotStarted"]
    /\ url = 1
    /\ frames = <<>>
    /\ served = <<>>
    /\ df = None
    /\ store = FreshServer
    /\ exc = "none"
    /\ status = [d \in Datasets |-> NoStatus]
    /\ open = 0
    /\ fault = "none"
    /\ lastFetch = [page |-> None, exc |-> "none", val |-> None]
    /\ catalog = NoCatalog
    /\ waiting = FALSE
    /\ call = NoCall
    /\ \E x \in BOOLEAN : \E m \in MysqlOutcomes : \E o \in ScraperOutcomes :
          setup = [pc |-> "check_file", exists |-> x, mysql |-> m, scraper |-> o,
                   checked |-> <<>>, started |-> FALSE, said |-> <<>>]

\* main(): os.path.exists("data_scraper.py").
SetupCheckFile ==
    /\ setup.pc = "check_file"
    /\ setup' = IF setup.exists
                 THEN [setup EXCEPT !.pc = "check_mysql", !.checked = Append(@, "file")]
                 ELSE [setup EXCEPT !.pc = "end", !.checked = Append(@, "file"),
                                    !.said = Append(@, "scraper_not_found")]
    /\ UNCHANGED <<pc, cur, state, url, frames, served, df, store, exc, status, open, fault,
                   lastFetch, call, catalog, waiting>>

\* main(): check_mysql_connection().
SetupCheckMysql ==
    /\ setup.pc = "check_mysql"
    /\ setup' = IF check_mysql_connection(setup.mysql)
                 THEN [setup EXCEPT !.pc = "run_scraper", !.checked = Append(@, "mysql"),
                                    !.said = Append(@, "mysql_ok")]
                 ELSE [setup EXCEPT !.pc = "end", !.checked = Append(@, "mysql"),
                                    !.said = @ \o <<"mysql_failed", "start_mysql">>]
    /\ UNCHANGED <<pc, cur, state, url, frames, served, df, store, exc, status, open, fault,
                   lastFetch, call, catalog, waiting>>

\* main(): run_data_scraper() and the last report.
SetupRunScraper ==
    /\ setup.pc = "run_scraper"
    /\ \E r \in {run_data_scraper(setup.scraper)} :
          setup' = [setup EXCEPT !.pc = "end",
                                 !.started = r.started,
                                 !.said = @ \o r.said \o
                                    <<IF r.ok THEN "setup_completed" ELSE "setup_failed">>]
    /\ UNCHANGED <<pc, cur, state, url, frames, served, df, store, exc, status, open, fault,
                   lastFetch, call, catalog, waiting>>

NextSetup ==
    \/ SetupCheckFile
    \/ SetupCheckMysql
    \/ SetupRunScraper

SpecSetup == InitSetup /\ [][NextSetup]_vars

\* ------------------------------------------------------------ the deduplicator taken alone

\* Normalized teams records: two that differ in one field only, and one whose
\* name is missing.
RecA == <<Str(<<"T", "e", "a", "m", "A">>), IntV(500), IntV(10)>>
RecB == <<Str(<<"T", "e", "a", "m", "A">>), IntV(500), IntV(4)>>
RecN == <<NaN, IntV(500), IntV(10)>>

Records == {RecA, RecB, RecN}

SeqsUpTo(S, n) == UNION {[1..k -> S] : k \in 0..n}

InitDedup ==
    /\ pc = "none"
    /\ cur = 1
    /\ state = [d \in Datasets |-> "NotStarted"]
    /\ url = 1
    /\ frames = <<>>
    /\ served = <<>>
    /\ df = None
    /\ store = FreshServer
    /\ exc = "none"
    /\ status = [d \in Datasets |-> NoStatus]
    /\ open = 0
    /\ fault = "none"
    /\ lastFetch = [page |-> None, exc |-> "none", val |-> None]
    /\ catalog = NoCatalog
    /\ waiting = FALSE
    /\ setup = NoSetup
    /\ \E rows \in SeqsUpTo(Records, MaxLen) :
          call = [fn |-> "drop_duplicates", arg |-> rows, res |-> <<>>, again |-> <<>>,
                  done |-> 0]

\* df.drop_duplicates() on the input.
CallDropDuplicates ==
    /\ call.fn = "drop_duplicates" /\ call.done = 0
    /\ call' = [call EXCEPT !.res = drop_duplicates(call.arg), !.done = 1]
    /\ UNCHANGED <<pc, cur, state, url, frames, served, df, store, exc, status, open, fault,
                   lastFetch, catalog, waiting, setup>>

\* df.drop_duplicates() on its own output.
CallDropDuplicatesAgain ==
    /\ call.fn = "drop_duplicates" /\ call.done = 1
    /\ call' = [call EXCEPT !.again = drop_duplicates(call.res), !.done = 2]
    /\ UNCHANGED <<pc, cur, state, url, frames, served, df, store, exc, status, open, fault,
                   lastFetch, catalog, waiting, setup>>

NextDedup ==
    \/ CallDropDuplicates
    \/ CallDropDuplicatesAgain

SpecDedup == InitDedup /\ [][NextDedup]_vars

\* ------------------------------------------------------------ the cleaning of one field taken alone

\* The names a scrape function gives the raw columns, by position.
CleanNames(d) ==
    CASE d = "countries" -> CleanCountries[1].arg
      [] d = "players" -> CleanPlayers[2].arg
      [] d = "tournaments" -> CleanTournaments[2].arg
      [] d = "teams" -> CleanTeams[1].arg

\* The page with the cell c in column j of its first row.
WithCell(page, j, c) ==
    DataFrame(page.cols,
              [r \in 1..Len(page.rows) |->
                  [k \in 1..Len(page.cols) |->
                      IF r = 1 /\ k = j THEN c ELSE page.rows[r][k]]])

\* What the scrape function of d makes of the raw cell c of `field`: the cell
\* sits in the first row of an otherwise clean page, the function renames and
\* cleans the frame, and the field of that row is read; an exception of the
\* cleaning leaves the function.
CleanField(d, field, c) ==
    CHOOSE res \in
        {IF r.exc # "none" THEN Raise(r.exc)
         ELSE Ok(r.val.rows[1][IndexOf(field, r.val.cols)]) :
            r \in {Clean(d, WithCell(FirstPage(d), IndexOf(field, CleanNames(d)), c))}} : TRUE

\* The fields each cleaning rule is applied to, with their dataset.
CurrencyFields ==
    {<<"countries", "total_earnings">>, <<"countries", "game_earnings">>,
     <<"players", "total_earnings">>, <<"tournaments", "prize_pool">>,
     <<"teams", "revenue">>}

PercentFields == {<<"countries", "game_percent">>, <<"players", "earnings_percent">>}

CountFields == {<<"teams", "tournaments_played">>, <<"countries", "num_players">>}

\* The longest run of digits in a generated raw cell.
MaxDigits == 2

DigitAlphabet == {"0", "7"}

\* The runs of digits of the raw cells.
Groups == {g \in SeqsUpTo(DigitAlphabet, MaxDigits) : g # <<>>}

RECURSIVE Join(_, _)
Join(gs, sep) ==
    IF Len(gs) = 1 THEN gs[1] ELSE gs[1] \o <<sep>> \o Join(Tail(gs), sep)

\* Raw cells "$" digits ("," digits)*, each with the number its digits spell.
CurrencyInputs ==
    {[cell |-> Str(<<"$">> \o Join(gs, ",")), n |-> DigitsToInt(Flatten(gs)), e |-> 0] :
        gs \in SeqsUpTo(Groups, 3) \ {<<>>}}
    \cup {[cell |-> Str(<<"$", "1", ",", "2", "3", "4", ",", "5", "6", "7">>),
           n |-> 1234567, e |-> 0]}

\* Raw cells "$" digits "." digits, each with the whole part of its value.
CurrencyDecimalInputs ==
    {[cell |-> Str(<<"$">> \o i \o <<".">> \o f), n |-> DigitsToInt(i), e |-> 0] :
        i \in Groups, f \in Groups}
    \cup {[cell |-> Str(<<"$", "1", ",", "5", "0", "0", ".", "5", "0">>), n |-> 1500, e |-> 0]}

\* Raw cells N "%", N a whole or a decimal number, each with the value N as
\* n / 10^e.
PercentInputs ==
    {[cell |-> Str(i \o <<"%">>), n |-> DigitsToInt(i), e |-> 0] : i \in Groups}
    \cup {[cell |-> Str(i \o <<".">> \o f \o <<"%">>), n |-> DigitsToInt(i \o f), e |-> Len(f)] :
             i \in Groups, f \in Groups}
    \cup {[cell |-> Str(<<"4", "5", "%">>), n |-> 45, e |-> 0]}

\* Raw cells "N Tournaments", with and without a thousands separator, each
\* with N; and cells that hold no number, each with 0.
CountInputs ==
    {[cell |-> Str(Join(gs, ",") \o TournamentsSuffix), n |-> DigitsToInt(Flatten(gs)), e |-> 0] :
        gs \in SeqsUpTo(Groups, 2) \ {<<>>}}
    \cup {[cell |-> Str(<<"1", "2", "0">> \o TournamentsSuffix), n |-> 120, e |-> 0]}
    \cup {[cell |-> c, n |-> 0, e |-> 0] :
             c \in {Str(<<"u", "n", "k", "n", "o", "w", "n">>), Str(<<"N", "/", "A">>),
                    Str(<<"-">>), Str(<<>>), Str(TournamentsSuffix), NaN}}

\* The calls of the cleaning of one field: the rule, the dataset and field,
\* the raw cell, and the number n / 10^e the cell stands for.
CleanCalls ==
    {[rule |-> "currency", d |-> f[1], field |-> f[2], cell |-> i.cell, n |-> i.n, e |-> i.e] :
        f \in CurrencyFields, i \in CurrencyInputs}
    \cup {[rule |-> "percent", d |-> f[1], field |-> f[2], cell |-> i.cell, n |-> i.n, e |-> i.e] :
             f \in PercentFields, i \in PercentInputs}
    \cup {[rule |-> "count", d |-> f[1], field |-> f[2], cell |-> i.cell, n |-> i.n, e |-> i.e] :
             f \in CountFields, i \in CountInputs}
    \cup {[rule |-> "currency_decimal", d |-> f[1], field |-> f[2], cell |-> i.cell,
            n |-> i.n, e |-> i.e] :
             f \in CurrencyFields, i \in CurrencyDecimalInputs}

InitClean ==
    /\ pc = "none"
    /\ cur = 1
    /\ state = [d \in Datasets |-> "NotStarted"]
    /\ url = 1
    /\ frames = <<>>
    /\ served = <<>>
    /\ df = None
    /\ store = FreshServer
    /\ exc = "none"
    /\ status = [d \in Datasets |-> NoStatus]
    /\ open = 0
    /\ fault = "none"
    /\ lastFetch = [page |-> None, exc |-> "none", val |-> None]
    /\ catalog = NoCatalog
    /\ waiting = FALSE
    /\ setup = NoSetup
    /\ \E a \in CleanCalls :
          call = [fn |-> "clean", arg |-> a, res |-> Ok(NaN), again |-> <<>>, done |-> 0]

\* The scrape function renames and cleans a frame that holds the raw cell.
CallClean ==
    /\ call.fn = "clean" /\ call.done = 0
    /\ call' = [call EXCEPT !.res = CleanField(call.arg.d, call.arg.field, call.arg.cell),
                            !.done = 1]
    /\ UNCHANGED <<pc, cur, state, url, frames, served, df, store, exc, status, open, fault,
                   lastFetch, catalog, waiting, setup>>

\* The type of the column of relation t that holds `field`.
ColumnType(t, field) ==
    TableDef(t)[CHOOSE k \in 1..Len(TableDef(t)) : TableDef(t)[k].name = field].type

\* The cleaned value is inserted into its column of the relation.
CallStore ==
    /\ call.fn = "clean" /\ call.done = 1
    /\ call.res.exc = "none"
    /\ call' = [call EXCEPT !.again = StoreValue(call.res.val,
                                                 ColumnType(call.arg.d, call.arg.field)),
                            !.done = 2]
    /\ UNCHANGED <<pc, cur, state, url, frames, served, df, store, exc, status, open, fault,
                   lastFetch, catalog, waiting, setup>>

NextClean ==
    \/ CallClean
    \/ CallStore

SpecClean == InitClean /\ [][NextClean]_vars

\* ------------------------------------------------------------ the normalizer on two header rows

\* Header rows a page can carry over the same cells: its own, labels that
\* tell nothing, and its own with the first label read as 'A-circumflex'.
Headers == {"same", "generic", "marked"}

GenericLabels == <<"c1", "c2", "c3", "c4", "c5", "c6", "c7">>

\* The frame read_html gives for the page f when its header row is h.
Relabel(f, h) ==
    CASE h = "same" -> f
      [] h = "generic" -> DataFrame(SubSeq(GenericLabels, 1, Len(f.cols)), f.rows)
      [] h = "marked" -> DataFrame(<<"A_circ">> \o Tail(f.cols), f.rows)

\* What a scrape function hands to insert_into_mysql for the frames fs of its
\* pages: the frames aggregated, renamed, cleaned, selected and deduplicated;
\* or the exception that leaves the function.
NormalizedRecords(d, fs) ==
    CHOOSE res \in
        {IF r.exc # "none" THEN Raise(r.exc) ELSE Ok(SelectAndDeduplicate(d, r.val).rows) :
            r \in {Clean(d, Aggregated(d, fs))}} : TRUE

\* The pages of one dataset in locator order, and the same pages under other
\* header rows.
HeaderCalls ==
    UNION {UNION {{[d |-> d, frames |-> fs,
                    relabelled |-> [k \in 1..Len(fs) |-> Relabel(fs[k], hs[k])]] :
                       hs \in [1..Len(fs) -> Headers]} :
                  fs \in {f \in SeqsUpTo(Pages(d), MaxFrames) :
                             f # <<>> /\ Len(f) <= NumUrls(d)}} :
           d \in Datasets}

InitHeader ==
    /\ pc = "none"
    /\ cur = 1
    /\ state = [d \in Datasets |-> "NotStarted"]
    /\ url = 1
    /\ frames = <<>>
    /\ served = <<>>
    /\ df = None
    /\ store = FreshServer
    /\ exc = "none"
    /\ status = [d \in Datasets |-> NoStatus]
    /\ open = 0
    /\ fault = "none"
    /\ lastFetch = [page |-> None, exc |-> "none", val |-> None]
    /\ catalog = NoCatalog
    /\ waiting = FALSE
    /\ setup = NoSetup
    /\ \E a \in HeaderCalls :
          call = [fn |-> "normalize", arg |-> a, res |-> Ok(<<>>), again |-> Ok(<<>>),
                  done |-> 0]

\* The scrape function works on the pages, and on the pages under the other
\* header rows.
CallNormalize ==
    /\ call.fn = "normalize" /\ call.done = 0
    /\ call' = [call EXCEPT !.res = NormalizedRecords(call.arg.d, call.arg.frames),
                            !.again = NormalizedRecords(call.arg.d, call.arg.relabelled),
                            !.done = 1]
    /\ UNCHANGED <<pc, cur, state, url, frames, served, df, store, exc, status, open, fault,
                   lastFetch, catalog, waiting, setup>>

NextHeader == CallNormalize

SpecHeader == InitHeader /\ [][NextHeader]_vars

\* ------------------------------------------------------------ properties

\* The number of raw columns each scrape function names.
ExpectedColumns(d) ==
    CASE d = "countries" -> 7
      [] d = "players" -> 6
      [] d = "tournaments" -> 4
      [] d = "teams" -> 4

\* The aggregated raw table of dataset d has another column count than d
\* expects (for players, the stray first column not counted).
RawMismatch(d, raw) ==
    Len(SelectSeq(raw.cols, LAMBDA c : ~(d = "players" /\ c = "A_circ"))) # ExpectedColumns(d)

ServedRows == Flatten([k \in 1..Len(served) |-> served[k].rows])

\* C1: once the pages of a dataset are read, the aggregated frame holds exactly
\* the rows of the pages that answered with a table, in locator order and then
\* in row order, whichever pages failed.
C1_AggregateIsRowsOfServedPages ==
    \A d \in Datasets : state[d] = "Normalizing" => df.rows = ServedRows

\* C2: when main() has ended after starting the first dataset, every dataset
\* has been started: no dataset's failure keeps a later one from running.
C2_LaterDatasetsStillStarted ==
    (pc = "end" /\ state["countries"] # "NotStarted")
        => \A d \in Datasets : state[d] # "NotStarted"

\* C3: a dataset of scrape_countries, scrape_players or scrape_teams whose raw
\* table has another column count than expected is skipped, and no exception
\* leaves main().
C3_MismatchIsSkipped ==
    [][\A d \in {"countries", "players", "teams"} :
          (state[d] = "Normalizing" /\ RawMismatch(d, df) /\ state'[d] # state[d])
              => (state'[d] = "Skipped" /\ exc' = "none" /\ pc' = "scrape")]_vars

\* C4: with the expected column count, cleaning never raises, whatever the
\* cells hold: the dataset goes on to deduplication.
C4_CleaningNeverRaises ==
    [][\A d \in Datasets :
          (state[d] = "Normalizing" /\ ~RawMismatch(d, df) /\ state'[d] # state[d])
              => (state'[d] = "Deduplicating" /\ exc' = "none")]_vars

\* C5: no exception leaves fetch_html_table; its caller gets the page's first
\* table when the read gave one, and None when the read failed in any way.
C5_FetcherNeverRaises ==
    /\ lastFetch.exc = "none"
    /\ lastFetch.val = lastFetch.page

\* C5 witness: the teams dataset has been served a table and then a failing page.
C5_Witness ==
    /\ state["teams"] = "Aggregating"
    /\ Len(frames) = 1
    /\ lastFetch.page = None
    /\ url = 3

\* The transitions of a dataset's run the orchestrator allows.
AllowedEdges ==
    {<<"NotStarted", "Init">>, <<"Init", "Aggregating">>, <<"Aggregating", "Normalizing">>,
     <<"Normalizing", "Deduplicating">>, <<"Deduplicating", "Loading">>,
     <<"Loading", "Done">>, <<"Init", "Skipped">>, <<"Aggregating", "Skipped">>,
     <<"Loading", "Failed">>}

\* C6: a dataset's run moves only along Init -> Aggregating -> Normalizing ->
\* Deduplicating -> Loading -> Done, to Skipped from Init or Aggregating, to
\* Failed from Loading; and when main() has ended every dataset that ran is in
\* Done, Skipped or Failed.
C6_StateMachine ==
    /\ [][\A d \in Datasets :
             state'[d] # state[d] => <<state[d], state'[d]>> \in AllowedEdges]_vars
    /\ [](pc = "end" =>
             \A d \in Datasets : state[d] \in {"NotStarted", "Done", "Skipped", "Failed"})

\* C7: insert_into_mysql returns to its caller whatever fails at the store, the
\* connection and the USE statement included, and the failure is reported for
\* its dataset.
C7_LoadErrorIsReported ==
    [][\A d \in Datasets :
          (state[d] = "Loading" /\ state'[d] # state[d] /\ fault' # "none")
              => (exc' = "none" /\ state'[d] = "Failed"
                  /\ status'[d].line = "insert_error")]_vars

FirstIndex(x, s) == CHOOSE i \in 1..Len(s) : s[i] = x /\ \A k \in 1..(i - 1) : s[k] # x

Range(s) == {s[i] : i \in 1..Len(s)}

\* C8: the output of the deduplicator holds only input records, holds none
\* twice, holds every input record, is as long as the input has distinct
\* records, and keeps them in the order of their first occurrence.
C8_DedupIsFirstOccurrences ==
    call.done >= 1 =>
        /\ Range(call.res) \subseteq Range(call.arg)
        /\ \A i, j \in 1..Len(call.res) : i # j => call.res[i] # call.res[j]
        /\ Range(call.arg) \subseteq Range(call.res)
        /\ Len(call.res) = Cardinality(Range(call.arg))
        /\ \A i, j \in 1..Len(call.res) :
              i < j => FirstIndex(call.res[i], call.arg) < FirstIndex(call.res[j], call.arg)

\* C8 witness: an input that repeats records has been deduplicated to two.
C8_Witness ==
    /\ call.done >= 1
    /\ Len(call.arg) >= 3
    /\ Len(call.res) = 2
    /\ call.arg[1] = call.arg[3]

\* C9: the deduplicator applied to its own output returns it unchanged.
C9_DedupIdempotent == call.done = 2 => call.again = call.res

\* C9 witness: an output shorter than its input has been deduplicated again.
C9_Witness ==
    /\ call.done = 2
    /\ Len(call.res) >= 2
    /\ Len(call.res) < Len(call.arg)

\* C10: a call of init_database that meets no store fault raises nothing, and
\* no call, failing or not, changes a relation that exists already, neither its
\* rows nor its columns.
C10_InitDatabaseIdempotent ==
    [][(pc = "init_database" /\ pc' # "init_database") =>
          /\ fault' = "none" => (exc' = "none" /\ pc' = "scrape")
          /\ \A t \in Datasets :
                (store.db /\ store.tables[t].exists) => store'.tables[t] = store.tables[t]]_vars

\* C10 witness: init_database has returned on a server whose relations held
\* the rows of an earlier run, and they hold them still.
C10_Witness ==
    /\ pc = "scrape"
    /\ cur = 1
    /\ state["countries"] = "NotStarted"
    /\ store = LoadedServer
    /\ \A t \in Datasets : store.tables[t].rows # <<>>

IsPrefix(a, b) == Len(a) <= Len(b) /\ SubSeq(b, 1, Len(a)) = a

\* C11: no step of a run, init_database and the loads included, failing or
\* not, removes a relation or changes or removes a row a relation holds: the
\* rows before the step are the first rows after it.
C11_AppendOnly ==
    [][\A t \in Datasets :
          (store.db /\ store.tables[t].exists)
              => /\ store'.db /\ store'.tables[t].exists
                 /\ IsPrefix(store.tables[t].rows, store'.tables[t].rows)]_vars

\* C11 witness: a relation that held the rows of an earlier run has been loaded
\* again, after a load of another relation failed.
C11_Witness ==
    /\ state["countries"] = "Failed"
    /\ state["players"] = "Done"
    /\ store.tables["countries"].rows = LoadedServer.tables["countries"].rows
    /\ store.tables["players"].rows # LoadedServer.tables["players"].rows
    /\ IsPrefix(LoadedServer.tables["players"].rows, store.tables["players"].rows)

Occ(x, s) == Len(SelectSeq(s, LAMBDA y : y = x))

\* C12: a load that succeeds adds one row per record handed to it, in their
\* order, whatever the relation held, and prints that number; every record it
\* adds is in the relation once more than before, so that k runs on the same
\* pages leave k copies.
C12_LoadGrowsByBatch ==
    [][\A d \in Datasets :
          (state[d] = "Loading" /\ state'[d] = "Done")
              => /\ Len(store'.tables[d].rows) = Len(store.tables[d].rows) + Len(df.rows)
                 /\ status'[d] = [line |-> "inserted", n |-> Len(df.rows)]
                 /\ \A i \in 1..Len(df.rows) :
                       LET row == store'.tables[d].rows[Len(store.tables[d].rows) + i]
                       IN  /\ row[1] = df.rows[i][1]
                           /\ Occ(row, store'.tables[d].rows)
                                  = Occ(row, store.tables[d].rows) + 1]_vars

\* C12 witness: the countries page an earlier run loaded has been loaded again,
\* and the relation holds its record twice.
C12_Witness ==
    /\ state["countries"] = "Done"
    /\ status["countries"].n = 1
    /\ LoadedServer.tables["countries"].rows # <<>>
    /\ store.tables["countries"].rows =
           LoadedServer.tables["countries"].rows \o LoadedServer.tables["countries"].rows

\* C13: a dataset none of whose pages gave a table ends in Skipped at once:
\* nothing is raised, the store is as it was, no connection is opened, and the
\* dataset never reaches the load.
C13_AllPagesFailIsSkipped ==
    /\ [][\A d \in Datasets :
             (Running = d /\ state[d] \in {"Init", "Aggregating"}
                 /\ url > NumUrls(d) /\ served = <<>>)
                 => /\ state'[d] = "Skipped"
                    /\ store' = store
                    /\ open' = open
                    /\ exc' = "none"
                    /\ pc' = "scrape"]_vars
    /\ [](\A d \in Datasets :
             (Running = d /\ state[d] \in {"Normalizing", "Deduplicating", "Loading"})
                 => served # <<>>)

\* C13 witness: all eleven players pages have failed and players is skipped.
C13_Witness ==
    /\ state["players"] = "Skipped"
    /\ state["tournaments"] = "NotStarted"
    /\ url = 12
    /\ served = <<>>
    /\ exc = "none"

\* C14: a dataset in Done, Skipped or Failed has its status line, and when
\* main() has ended after starting the datasets, each of the four has one.
C14_StatusLineForEveryDataset ==
    /\ \A d \in Datasets :
          state[d] \in {"Done", "Skipped", "Failed"} => status[d].line # "none"
    /\ (pc = "end" /\ state["countries"] # "NotStarted")
          => \A d \in Datasets : status[d].line # "none"

Terminal == {"Done", "Skipped", "Failed"}

\* C15: a dataset is started only when those before it in the order countries,
\* players, tournaments, teams are in a terminal state and those after it are
\* not started; a dataset that has ended is not run again; and when main() has
\* ended after starting the datasets, each of the four has been run.
C15_FixedOrderExactlyOnce ==
    /\ [][\A d \in Datasets :
             (state[d] = "NotStarted" /\ state'[d] # "NotStarted")
                 => \A e \in Datasets :
                       /\ IndexOf(e, Order) < IndexOf(d, Order) => state[e] \in Terminal
                       /\ IndexOf(e, Order) > IndexOf(d, Order) => state[e] = "NotStarted"]_vars
    /\ [][\A d \in Datasets : state[d] \in Terminal => state'[d] = state[d]]_vars
    /\ [](pc = "end" /\ state["countries"] # "NotStarted"
             => \A d \in Datasets : state[d] \in Terminal)

\* The two rows the teams relation is to hold.
TeamsTwoRows ==
    << <<Str(<<"T", "e", "a", "m", "A">>), IntV(500), IntV(10)>>,
       <<Str(<<"T", "e", "a", "m", "B">>), IntV(300), IntV(4)>> >>

\* C16: with the single raw page of rows (TeamA, $500, 10 Tournaments) twice
\* and (TeamB, $300, 4 Tournaments), and an empty teams relation, every step of
\* the teams run goes on to the next stage, and the load, when the store does
\* not fail, leaves exactly the rows (TeamA, 500, 10) and (TeamB, 300, 4).
C16_TeamsEndToEnd ==
    [][(/\ Running = "teams"
        /\ served = <<TeamsPageNoRank>>
        /\ store.tables["teams"].rows = <<>>
        /\ state["teams"] \in {"Normalizing", "Deduplicating", "Loading"}
        /\ state'["teams"] # state["teams"]
        /\ fault' = "none")
          => \/ state["teams"] = "Normalizing" /\ state'["teams"] = "Deduplicating"
             \/ state["teams"] = "Deduplicating" /\ state'["teams"] = "Loading"
             \/ /\ state["teams"] = "Loading" /\ state'["teams"] = "Done"
                /\ store'.tables["teams"].rows = TeamsTwoRows]_vars

\* C20: when insert_into_mysql ends, however it ends, the relation holds
\* either the rows it held or those and one row for every record of the batch.
C20_BatchAtomic ==
    [][\A d \in Datasets :
          (state[d] = "Loading" /\ state'[d] # state[d])
              => \/ store'.tables[d].rows = store.tables[d].rows
                 \/ /\ IsPrefix(store.tables[d].rows, store'.tables[d].rows)
                    /\ Len(store'.tables[d].rows) = Len(store.tables[d].rows) + Len(df.rows)]_vars

\* C20 witness: the insert of a batch of two teams records has failed after
\* the server accepted the first, and the relation holds neither.
C20_Witness ==
    /\ state["teams"] = "Failed"
    /\ fault = "insert_late"
    /\ Len(df.rows) = 2
    /\ store.tables["teams"].exists
    /\ store.tables["teams"].rows = <<>>

Cleaned(rule) == call.fn = "clean" /\ call.done = 1 /\ call.arg.rule = rule

\* C17: the cleaning of a currency field of countries, players, tournaments or
\* teams makes of "$" digits ("," digits)* the number its digits spell, and
\* raises nothing.
C17_CurrencyIsItsDigits ==
    Cleaned("currency") =>
        /\ call.res.exc = "none"
        /\ call.res.val.t \in {"int", "float"}
        /\ call.res.val.n = call.arg.n
        /\ call.res.val.e = 0

\* C17 witness: "$1,234,567" has been cleaned as the revenue of a team and as
\* the total earnings of a country.
C17_Witness ==
    /\ Cleaned("currency")
    /\ call.arg.cell = Str(<<"$", "1", ",", "2", "3", "4", ",", "5", "6", "7">>)
    /\ call.arg.d \in {"teams", "countries"}
    /\ call.res.val.n = 1234567

\* C18: the cleaning of a count field makes the integer N of "N Tournaments",
\* and 0 of a cell that holds no number, and raises nothing.
C18_CountIsNOrZero ==
    Cleaned("count") => call.res = Ok(IntV(call.arg.n))

\* C19: the cleaning of a percentage field of countries or players makes of
\* N "%" the floating-point value N, and raises nothing.
C19_PercentIsN ==
    Cleaned("percent") => call.res = Ok(FloatV(call.arg.n, call.arg.e))

\* C19 witness: "45%" has been cleaned to 45.0 as the game percent of a country.
C19_Witness ==
    /\ Cleaned("percent")
    /\ call.arg.d = "countries"
    /\ call.arg.cell = Str(<<"4", "5", "%">>)
    /\ call.res.val = FloatV(45, 0)

\* C21: pages that hold the same cells in the same positions under other
\* header rows give the same normalized records, or the same exception.
C21_HeaderIndependent ==
    (call.fn = "normalize" /\ call.done = 1) => call.again = call.res

\* C22: a dataset whose aggregated raw table has another column count than
\* expected loads nothing: its relation holds after the load what it held.
C22_MismatchLoadsNothing ==
    [][\A d \in Datasets :
          (state[d] = "Loading" /\ state'[d] # state[d]
              /\ RawMismatch(d, Aggregated(d, frames)))
              => store'.tables[d].rows = store.tables[d].rows]_vars

\* The canonical fields of a cleaned row.
Canon(d, row, cols) == [k \in 1..Len(Columns(d)) |-> row[IndexOf(Columns(d)[k], cols)]]

\* C27: the records handed to the load are the canonical field tuples of the
\* cleaned rows, each once, in the order of their first occurrence: rows that
\* are equal on the canonical fields after cleaning give one record.
C27_DedupOnCleanedCanonicalFields ==
    [][\A d \in Datasets :
          (state[d] = "Deduplicating" /\ state'[d] # state[d])
              => LET tuples == [i \in 1..Len(df.rows) |-> Canon(d, df.rows[i], df.cols)]
                 IN  /\ df'.cols = Columns(d)
                     /\ Range(df'.rows) = Range(tuples)
                     /\ Len(df'.rows) = Cardinality(Range(tuples))
                     /\ \A i, j \in 1..Len(df'.rows) :
                           i < j => FirstIndex(df'.rows[i], tuples)
                                       < FirstIndex(df'.rows[j], tuples)]_vars

\* C27 witness: the teams page whose first two rows differ in rank and in the
\* spelling of the revenue ("$500", "$500.00") has been deduplicated to the
\* records of TeamA and TeamB.
C27_Witness ==
    /\ state["teams"] = "Loading"
    /\ served = <<TeamsPage>>
    /\ Len(TeamsPage.rows) = 3
    /\ TeamsPage.rows[1][3] # TeamsPage.rows[2][3]
    /\ Len(df.rows) = 2
    /\ df.rows[1] = <<Str(<<"T", "e", "a", "m", "A">>), IntV(500), IntV(10)>>

\* C28: while a dataset is run, whatever its end, every relation other than
\* its own stays as it was.
C28_OtherRelationsUnchanged ==
    [][\A t \in Datasets :
          (pc = "scrape" /\ t # Running) => store'.tables[t] = store.tables[t]]_vars

\* C28 witness: countries has been loaded on a server whose relations held the
\* rows of an earlier run; the other three hold them still.
C28_Witness ==
    /\ state["countries"] = "Done"
    /\ store.tables["countries"].rows # LoadedServer.tables["countries"].rows
    /\ \A t \in Datasets \ {"countries"} :
          store.tables[t] = LoadedServer.tables[t] /\ store.tables[t].rows # <<>>

\* C29: init_database and insert_into_mysql leave no connection open, however
\* they end.
C29_ConnectionsClosed == open = 0

\* C26: a currency cell with decimals is held by its integer column, in each
\* of the five currency fields, as its value truncated to an integer.
C26_CurrencyTruncated ==
    (call.fn = "clean" /\ call.done = 2 /\ call.arg.rule = "currency_decimal")
        => call.again = IntV(call.arg.n)

\* C23: rows of a dataset, scraped or catalog import, are in the store only
\* when init_database has completed in this run.
C23_InitializerBeforeFirstLoad ==
    (catalog.loaded # <<>> \/ \E d \in Datasets : state[d] \in {"Loading", "Done", "Failed"})
        => pc \notin {"import_csv", "init_database"}

\* C24: whatever goes wrong in a catalog import, the entry point goes on to
\* the next import or to main().
C24_ImportFailureIsIsolated ==
    [][pc = "import_csv" =>
          /\ pc' \in {"import_csv", "init_database"}
          /\ exc' = "none"
          /\ catalog'.next = catalog.next + 1]_vars

\* C25: a fetch that waits for a source that does not answer can be ended: in
\* every state where a fetch waits, the run has a next step.
C25_WaitingFetchCanEnd == waiting => ENABLED NextEntry

InSaid(line) == InSeq(line, setup.said)

\* C30: the MySQL check is made only after the file check has passed, the
\* scraper is started only after both have passed, and at the end the script
\* has printed that setup completed exactly when the scraper was started and
\* returned 0; otherwise it has printed the failure or has not started the
\* scraper.
C30_SetupReportsTruthfully ==
    setup.pc # "none" =>
        /\ InSeq("mysql", setup.checked) => (setup.exists /\ setup.checked[1] = "file")
        /\ setup.started =>
              (setup.exists /\ setup.mysql = "ok" /\ setup.checked = <<"file", "mysql">>)
        /\ InSaid("setup_completed") <=>
              (setup.pc = "end" /\ setup.started
                  /\ setup.scraper.kind = "exit" /\ setup.scraper.code = 0)
        /\ (setup.pc = "end" /\ ~InSaid("setup_completed"))
              => (InSaid("setup_failed") \/ ~setup.started)

\* C30 witness: both checks passed, the scraper returned another code than 0,
\* and the script has printed that setup failed.
C30_Witness ==
    /\ setup.pc = "end"
    /\ setup.started
    /\ setup.scraper.code # 0
    /\ InSaid("setup_failed")
    /\ ~InSaid("setup_completed")

====
